---- MODULE Spec2Model ----
(***************************************************************************)
(* The singleton background-job registry and the session event loop of     *)
(* crates/maple_cli/src/stdio_server/session/mod.rs, and the choice of     *)
(* driver and source of crates/maple_cli/src/command/filter.rs.            *)
(*                                                                         *)
(* Time is counted in ticks of MsPerTick milliseconds.                     *)
(***************************************************************************)
EXTENDS Integers, Sequences, FiniteSets, TLC

\* ------------------------------------------------------------------ bounds
NumCallers == 2
NumCwds == 2
MaxCalls == 4
MaxEvents == 3
MaxTime == 2

\* --------------------------------------------------------- program constants
\* const DELAY: Duration = Duration::from_millis(200 + 50)
DELAY_MS == 200 + 50
\* const TIMEOUT: Duration = Duration::from_millis(300)
TIMEOUT_MS == 300

\* The clock counts ticks of half a debounce delay; the durations are
\* rounded down to whole ticks.
MsPerTick == DELAY_MS \div 2
DELAY == DELAY_MS \div MsPerTick
TIMEOUT == TIMEOUT_MS \div MsPerTick
\* const NEVER: Duration = Duration::from_secs(365 * 24 * 60 * 60)
NEVER == 365 * 24 * 60 * 60 * (1000 \div MsPerTick)

Callers == 1..NumCallers
Cwds == 1..NumCwds

\* utility::calculate_hash(&rg_cmd): a deterministic hash of the command,
\* which is built from the cwd alone.
calculate_hash(cwd) == 2 * cwd + 1

JobIds == {calculate_hash(c) : c \in Cwds}

None == [kind |-> "None"]

VARIABLES
    BACKGROUND_JOBS,   \* the HashSet<u64> behind the mutex
    callerPc,          \* position of each spawn_singleton_job caller
    callerArg,         \* the job_id argument of the call in progress
    tasks,             \* every task tokio::spawn created, in spawn order
    dropped,           \* per job id, the futures dropped unexecuted
    ncalls,            \* number of direct calls made so far
    debounce,          \* SessionContext.debounce
    provider_id,       \* SessionContext.provider_id
    cwd,               \* SessionContext.cwd
    is_running,        \* SessionContext.state.is_running
    source_scale,      \* SessionContext source scale slot
    total_size_msgs,   \* number of s:set_total_size messages printed
    chan,              \* events in the unbounded channel
    sent,              \* every event ever sent, in send order
    closed,            \* every sender has been dropped
    loopPc,            \* "select" | "await" | "done"
    pending_on_typed,  \* Option<MethodCall>
    deadline,          \* deadline of debounce_timer
    calls,             \* every handler invocation, in start order
    timeout_at,        \* when the timeout of the running on_create elapses
    last_typed_at,     \* when the latest OnTyped was sent
    last_result,       \* how the latest handler call ended
    now,               \* the clock
    creator,           \* per caller, the session whose on_create is the caller
    filter             \* the invocation of the filter command

jobVars == <<BACKGROUND_JOBS, callerPc, callerArg, tasks, dropped, ncalls>>
ctxVars == <<debounce, provider_id, cwd, is_running, source_scale, total_size_msgs>>
loopVars == <<chan, sent, closed, loopPc, pending_on_typed, deadline, calls,
              timeout_at, last_typed_at, last_result>>
vars == <<jobVars, ctxVars, loopVars, now, creator, filter>>

\* ------------------------------------------------------------ job registry

\* register_job_successfully: the value returned
register_job_alwaysTrue(jobs, job_id) == TRUE
register_job_successfully(jobs, job_id) == job_id \notin jobs

\* register_job_successfully: the set after the call
register_job_insert(jobs, job_id) == jobs \cup {job_id}

\* note_job_is_finished: the set after the call
note_job_keeps(jobs, job_id) == jobs
note_job_is_finished(jobs, job_id) == jobs \ {job_id}

Executing(t) == t.st \in {"awaiting", "noting"}
ExecutingTasks(j) == {i \in 1..Len(tasks) : tasks[i].id = j /\ Executing(tasks[i])}

\* a direct caller enters spawn_singleton_job(task_future, j)
Call(c, j) ==
    /\ callerPc[c] = "idle"
    /\ ncalls < MaxCalls
    /\ callerPc' = [callerPc EXCEPT ![c] = "call"]
    /\ callerArg' = [callerArg EXCEPT ![c] = j]
    /\ ncalls' = ncalls + 1
    /\ UNCHANGED <<creator, filter, BACKGROUND_JOBS, tasks, dropped, ctxVars, loopVars, now>>

\* if register_job_successfully(job_id): one critical section of the mutex
Register(c) ==
    /\ callerPc[c] = "call"
    /\ LET ok == register_job_successfully(BACKGROUND_JOBS, callerArg[c]) IN
        /\ callerPc' = [callerPc EXCEPT ![c] = IF ok THEN "registered" ELSE "rejected"]
        /\ BACKGROUND_JOBS' = IF ok THEN register_job_insert(BACKGROUND_JOBS, callerArg[c])
                                    ELSE BACKGROUND_JOBS
    /\ UNCHANGED <<creator, filter, callerArg, tasks, dropped, ncalls, ctxVars, loopVars, now>>

\* tokio::spawn(async move { task_future.await; note_job_is_finished(job_id) })
SpawnTask(c) ==
    /\ callerPc[c] = "registered"
    /\ tasks' = Append(tasks, [id |-> callerArg[c], st |-> "awaiting"])
    /\ callerPc' = [callerPc EXCEPT ![c] = "idle"]
    /\ UNCHANGED <<creator, filter, BACKGROUND_JOBS, callerArg, dropped, ncalls, ctxVars, loopVars, now>>

\* the if is not taken: spawn_singleton_job returns and task_future is dropped
DropFuture(c) ==
    /\ callerPc[c] = "rejected"
    /\ dropped' = [dropped EXCEPT ![callerArg[c]] = @ + 1]
    /\ callerPc' = [callerPc EXCEPT ![c] = "idle"]
    /\ UNCHANGED <<creator, filter, BACKGROUND_JOBS, callerArg, tasks, ncalls, ctxVars, loopVars, now>>

\* task_future.await returns
TaskFutureReturns(i) ==
    /\ i \in 1..Len(tasks)
    /\ tasks[i].st = "awaiting"
    /\ tasks' = [tasks EXCEPT ![i].st = "noting"]
    /\ UNCHANGED <<creator, filter, BACKGROUND_JOBS, callerPc, callerArg, dropped, ncalls, ctxVars, loopVars, now>>

\* note_job_is_finished(job_id), the last statement of the task
TaskNotesFinished(i) ==
    /\ i \in 1..Len(tasks)
    /\ tasks[i].st = "noting"
    /\ BACKGROUND_JOBS' = note_job_is_finished(BACKGROUND_JOBS, tasks[i].id)
    /\ tasks' = [tasks EXCEPT ![i].st = "finished"]
    /\ UNCHANGED <<creator, filter, callerPc, callerArg, dropped, ncalls, ctxVars, loopVars, now>>

\* task_future panics inside task_future.await: the task unwinds and ends,
\* the statement after the await is never reached
TaskPanics(i) ==
    /\ i \in 1..Len(tasks)
    /\ tasks[i].st = "awaiting"
    /\ tasks' = [tasks EXCEPT ![i].st = "panicked"]
    /\ UNCHANGED <<creator, filter, BACKGROUND_JOBS, callerPc, callerArg, dropped, ncalls, ctxVars, loopVars, now>>

\* ----------------------------------------------------------- the session

EventKinds == {"Create", "OnTyped", "OnMove", "Terminate"}

\* SourceScale, as returned by initialize: one variant with a total and the
\* variant without (Small and Cache act on the context as Large does)
ScaleKinds == {"Large", "Indefinite"}

\* SourceScale::total(): every variant but Indefinite carries a total
total(scale) == IF scale = "Indefinite" THEN None ELSE [kind |-> "Some"]

Some(msg) == [kind |-> "Some", id |-> msg]

NoTyped == 0 - DELAY

RunningCalls == {i \in 1..Len(calls) : calls[i].st = "running"}

\* the handler call that is running when a Terminate is sent, or 0
RunningAtSend(k) ==
    IF k = "Terminate" /\ RunningCalls # {} THEN CHOOSE i \in RunningCalls : TRUE ELSE 0

\* a sender sends an event; its MethodCall/Call id is fresh.  burst records
\* that an OnTyped is sent less than DELAY after the OnTyped before it,
\* during the handler call a Terminate is sent into.
Send(k) ==
    /\ ~closed
    /\ loopPc # "done"
    /\ Len(sent) < MaxEvents
    /\ LET e == [kind |-> k, id |-> Len(sent) + 1,
                 burst |-> k = "OnTyped" /\ now - last_typed_at < DELAY,
                 during |-> RunningAtSend(k)] IN
        /\ sent' = Append(sent, e)
        /\ chan' = Append(chan, e)
    /\ last_typed_at' = IF k = "OnTyped" THEN now ELSE last_typed_at
    /\ UNCHANGED <<creator, filter, jobVars, ctxVars, closed, loopPc, pending_on_typed, deadline, calls,
                   timeout_at, last_result, now>>

\* the last sender is dropped
CloseChannel ==
    /\ ~closed
    /\ closed' = TRUE
    /\ UNCHANGED <<creator, filter, jobVars, ctxVars, chan, sent, loopPc, pending_on_typed, deadline, calls,
                   timeout_at, last_typed_at, last_result, now>>

\* self.event_recv.recv(): the channel is first in, first out
recv_last(ch) == ch[Len(ch)]
recv(ch) == Head(ch)

\* the event recv() returned is taken out of the queue
rest_keeps(ch) == ch
rest(ch) == Tail(ch)

\* handler(..).await: the loop is suspended until the handler returns
spawned_not_awaited == "select"
await_handler == "await"

\* what the loop does with the Result a handler returned: log it, go on
propagate_error(res) == IF res = "err" THEN "done" ELSE "select"
after_handler(res) == "select"

\* handle_terminate: context.state.is_running.store(false, SeqCst)
handle_terminate_noop(running) == running
handle_terminate(running) == FALSE

Invoke(h, msg) == Append(calls, [kind |-> h, id |-> msg, st |-> "running"])

\* pending_on_typed.replace(msg)
keep_first(old, msg) == IF old = None THEN Some(msg) ELSE old
replace_pending(old, msg) == Some(msg)

\* debounce_timer.as_mut().reset(Instant::now() + DELAY)
debounce_deadline_never(t) == t + NEVER
debounce_deadline(t) == t + DELAY

\* debounce_timer.as_mut().reset(Instant::now() + NEVER)
never_deadline_skipped(t) == t
never_deadline(t) == t + NEVER

\* recv() yields None once every sender is dropped and the queue is drained
closed_undrained(ch, cl) == cl
channel_closed(ch, cl) == ch = <<>> /\ cl

\* the match on context.provider_id.as_str(): "grep" | "live_grep"
only_grep(p) == p = "grep"
is_grep_family(p) == p \in {"grep", "live_grep"}

\* process_source_scale: s:set_total_size is printed if the scale has a total
emit_always(n, scale) == n + 1
emit_total(n, scale) == IF total(scale) # None THEN n + 1 ELSE n

RecvReady == chan # <<>> \/ closed
timer_branch_disabled == FALSE
TimerReady == debounce /\ pending_on_typed # None /\ now >= deadline

\* recv() yields Some(ProviderEvent::Terminate), in both loops
RecvTerminate ==
    /\ loopPc = "select"
    /\ chan # <<>>
    /\ recv(chan).kind = "Terminate"
    /\ chan' = rest(chan)
    /\ is_running' = handle_terminate(is_running)
    /\ calls' = Append(calls, [kind |-> "handle_terminate", id |-> recv(chan).id,
                               st |-> "returned"])
    /\ UNCHANGED <<creator, filter, jobVars, debounce, provider_id, cwd, source_scale, total_size_msgs,
                   sent, closed, loopPc, pending_on_typed, deadline,
                   timeout_at, last_typed_at, last_result, now>>

\* recv() yields Some(ProviderEvent::Create(call)), in both loops
RecvCreate ==
    /\ loopPc = "select"
    /\ chan # <<>>
    /\ recv(chan).kind = "Create"
    /\ chan' = rest(chan)
    /\ calls' = Invoke("on_create", recv(chan).id)
    /\ timeout_at' = now + TIMEOUT
    /\ loopPc' = await_handler
    /\ UNCHANGED <<creator, filter, jobVars, ctxVars, sent, closed, pending_on_typed, deadline,
                   last_typed_at, last_result, now>>

\* recv() yields Some(ProviderEvent::OnMove(msg)), in both loops
RecvOnMove ==
    /\ loopPc = "select"
    /\ chan # <<>>
    /\ recv(chan).kind = "OnMove"
    /\ chan' = rest(chan)
    /\ calls' = Invoke("on_move", recv(chan).id)
    /\ loopPc' = await_handler
    /\ UNCHANGED <<creator, filter, jobVars, ctxVars, sent, closed, pending_on_typed, deadline,
                   timeout_at, last_typed_at, last_result, now>>

\* run_event_loop_with_debounce, ProviderEvent::OnTyped(msg)
RecvOnTypedDebounce ==
    /\ debounce
    /\ loopPc = "select"
    /\ chan # <<>>
    /\ recv(chan).kind = "OnTyped"
    /\ chan' = rest(chan)
    /\ pending_on_typed' = replace_pending(pending_on_typed, recv(chan).id)
    /\ deadline' = debounce_deadline(now)
    /\ UNCHANGED <<creator, filter, jobVars, ctxVars, sent, closed, loopPc, calls, timeout_at, last_typed_at, last_result, now>>

\* run_event_loop_without_debounce, ProviderEvent::OnTyped(msg)
RecvOnTypedDirect ==
    /\ ~debounce
    /\ loopPc = "select"
    /\ chan # <<>>
    /\ recv(chan).kind = "OnTyped"
    /\ chan' = rest(chan)
    /\ calls' = Invoke("on_typed", recv(chan).id)
    /\ loopPc' = await_handler
    /\ UNCHANGED <<creator, filter, jobVars, ctxVars, sent, closed, pending_on_typed, deadline,
                   timeout_at, last_typed_at, last_result, now>>

\* recv() yields None: break, resp. the while let ends
RecvNone ==
    /\ loopPc = "select"
    /\ channel_closed(chan, closed)
    /\ loopPc' = "done"
    /\ UNCHANGED <<creator, filter, jobVars, ctxVars, chan, sent, closed, pending_on_typed, deadline, calls,
                   timeout_at, last_typed_at, last_result, now>>

\* the branch `_ = debounce_timer.as_mut(), if pending_on_typed.is_some()`
TimerFires ==
    /\ loopPc = "select"
    /\ TimerReady
    /\ pending_on_typed' = None
    /\ deadline' = never_deadline(now)
    /\ calls' = Invoke("on_typed", pending_on_typed.id)
    /\ loopPc' = await_handler
    /\ UNCHANGED <<creator, filter, jobVars, ctxVars, chan, sent, closed, timeout_at, last_typed_at, last_result, now>>

\* a handler call returns: the log records it, last_result remembers how
\* the latest call ended ("ok", "err", or "timeout" of initialize)
Returned(i, res) ==
    /\ calls' = [calls EXCEPT ![i].st = "returned"]
    /\ last_result' = res
    /\ loopPc' = after_handler(res)

\* on_move / on_typed returns Ok(()) or Err(err)
HandlerReturns(i, res) ==
    /\ i \in RunningCalls
    /\ calls[i].kind \in {"on_move", "on_typed"}
    /\ Returned(i, res)
    /\ UNCHANGED <<creator, filter, jobVars, ctxVars, chan, sent, closed, pending_on_typed, deadline,
                   timeout_at, last_typed_at, now>>

\* on_create: initialize returned Ok(scale) within TIMEOUT: process_source_scale
\* prints s:set_total_size if the scale has a total, then stores the scale
CreateInitOk(i, scale) ==
    /\ i \in RunningCalls
    /\ calls[i].kind = "on_create"
    /\ now <= timeout_at
    /\ total_size_msgs' = emit_total(total_size_msgs, scale)
    /\ source_scale' = Some(scale)
    /\ Returned(i, "ok")
    /\ timeout_at' = 0
    /\ UNCHANGED <<creator, filter, jobVars, debounce, provider_id, cwd, is_running,
                   chan, sent, closed, pending_on_typed, deadline, last_typed_at, now>>

\* on_create: initialize returned Err(e) within TIMEOUT: tracing::error!
CreateInitErr(i) ==
    /\ i \in RunningCalls
    /\ calls[i].kind = "on_create"
    /\ now <= timeout_at
    /\ Returned(i, "err")
    /\ timeout_at' = 0
    /\ UNCHANGED <<creator, filter, jobVars, ctxVars, chan, sent, closed, pending_on_typed, deadline,
                   last_typed_at, now>>

\* on_create: the timeout elapsed, provider grep or live_grep:
\* spawn_singleton_job(create_cache, calculate_hash(&rg_cmd)) registers and
\* spawns, or drops the future; then on_create returns
CreateTimeoutGrep(i) ==
    /\ i \in RunningCalls
    /\ calls[i].kind = "on_create"
    /\ now >= timeout_at
    /\ is_grep_family(provider_id)
    /\ LET job_id == calculate_hash(cwd)
           ok == register_job_successfully(BACKGROUND_JOBS, job_id) IN
        /\ BACKGROUND_JOBS' = IF ok THEN register_job_insert(BACKGROUND_JOBS, job_id)
                                    ELSE BACKGROUND_JOBS
        /\ tasks' = IF ok THEN Append(tasks, [id |-> job_id, st |-> "awaiting"])
                          ELSE tasks
        /\ dropped' = IF ok THEN dropped ELSE [dropped EXCEPT ![job_id] = @ + 1]
    /\ Returned(i, "timeout")
    /\ timeout_at' = 0
    /\ UNCHANGED <<creator, filter, callerPc, callerArg, ncalls, ctxVars, chan, sent, closed,
                   pending_on_typed, deadline, last_typed_at, now>>

\* on_create: the timeout elapsed, any other provider: nothing is done
CreateTimeoutOther(i) ==
    /\ i \in RunningCalls
    /\ calls[i].kind = "on_create"
    /\ now >= timeout_at
    /\ ~is_grep_family(provider_id)
    /\ Returned(i, "timeout")
    /\ timeout_at' = 0
    /\ UNCHANGED <<creator, filter, jobVars, ctxVars, chan, sent, closed, pending_on_typed, deadline,
                   last_typed_at, now>>

\* tokio::time::timeout(TIMEOUT, ..) has elapsed for a running on_create
TimeoutDue ==
    \E i \in RunningCalls : calls[i].kind = "on_create" /\ now >= timeout_at

\* the clock is read by the debounce timer while a message is pending, by
\* the timeout of a running on_create, and by a sender within DELAY of the
\* latest OnTyped
ClockObserved ==
    \/ pending_on_typed # None
    \/ \E i \in RunningCalls : calls[i].kind = "on_create"
    \/ now - last_typed_at < DELAY

\* Time passes.  The loop task is scheduled as soon as a branch of its select
\* is ready, and a timeout fires when it is due.  Ticks that nothing can
\* observe are left out.
Tick ==
    /\ now < MaxTime
    /\ ~(loopPc = "select" /\ (RecvReady \/ TimerReady))
    /\ ~TimeoutDue
    /\ loopPc # "done"
    /\ ClockObserved
    /\ now' = now + 1
    /\ UNCHANGED <<creator, filter, jobVars, ctxVars, loopVars>>

\* ------------------------------------------------- several sessions' on_create

ProviderIds == {"grep", "live_grep", "files"}

\* no session behind the caller
NoSession == [st |-> "none"]

\* the session of caller c is created with provider p and cwd w; its loop
\* receives Create and on_create awaits timeout(TIMEOUT, initialize(context))
SessionCreate(c, p, w) ==
    /\ creator[c].st = "none"
    /\ callerPc[c] = "idle"
    /\ ncalls < MaxCalls
    /\ ncalls' = ncalls + 1
    /\ creator' = [creator EXCEPT ![c] =
            [st |-> "initializing", provider_id |-> p, cwd |-> w,
             source_scale |-> None, outcome |-> "none"]]
    /\ UNCHANGED <<filter, BACKGROUND_JOBS, callerPc, callerArg, tasks, dropped,
                   ctxVars, loopVars, now>>

\* Ok(scale_result), Ok(scale): process_source_scale stores the scale
SessionInitOk(c, scale) ==
    /\ creator[c].st = "initializing"
    /\ creator' = [creator EXCEPT ![c].st = "returned",
                                  ![c].outcome = "ok",
                                  ![c].source_scale = Some(scale)]
    /\ UNCHANGED <<filter, jobVars, ctxVars, loopVars, now>>

\* Ok(scale_result), Err(e): the error is logged
SessionInitErr(c) ==
    /\ creator[c].st = "initializing"
    /\ creator' = [creator EXCEPT ![c].st = "returned", ![c].outcome = "err"]
    /\ UNCHANGED <<filter, jobVars, ctxVars, loopVars, now>>

\* Err(_), "grep" | "live_grep": on_create enters
\* spawn_singleton_job(.., calculate_hash(&rg_cmd))
SessionTimeoutGrep(c) ==
    /\ creator[c].st = "initializing"
    /\ is_grep_family(creator[c].provider_id)
    /\ creator' = [creator EXCEPT ![c].st = "spawning", ![c].outcome = "timeout"]
    /\ callerPc' = [callerPc EXCEPT ![c] = "call"]
    /\ callerArg' = [callerArg EXCEPT ![c] = calculate_hash(creator[c].cwd)]
    /\ UNCHANGED <<filter, BACKGROUND_JOBS, tasks, dropped, ncalls, ctxVars, loopVars, now>>

\* Err(_), any other provider: nothing is done
SessionTimeoutOther(c) ==
    /\ creator[c].st = "initializing"
    /\ ~is_grep_family(creator[c].provider_id)
    /\ creator' = [creator EXCEPT ![c].st = "returned", ![c].outcome = "timeout"]
    /\ UNCHANGED <<filter, jobVars, ctxVars, loopVars, now>>

\* spawn_singleton_job has returned and on_create returns Ok(())
SessionCreateReturns(c) ==
    /\ creator[c].st = "spawning"
    /\ callerPc[c] = "idle"
    /\ creator' = [creator EXCEPT ![c].st = "returned"]
    /\ UNCHANGED <<filter, jobVars, ctxVars, loopVars, now>>

\* ------------------------------------------------------ the filter command

\* the filter command is not run
NotRun == [pc |-> "none"]

Cmds == {"fd", "rg"}
Dirs == {"/tmp"}
Files == {"/a", "/b"}

Opt(S) == {None} \cup {[kind |-> "Some", v |-> x] : x \in S}

\* the parsed struct Filter, as far as run reads it to pick driver and source
Invocations ==
    [pc : {"run"}, sync : BOOLEAN, par_run : BOOLEAN,
     cmd : Opt(Cmds), cmd_dir : Opt(Dirs), input : Opt(Files),
     driver : {"none"}, source : {None}]

\* Exec::shell(cmd_str).cwd(dir) / Exec::shell(cmd_str)
Exec(f) == [kind |-> "Exec", cmd |-> f.cmd.v, cwd |-> f.cmd_dir]

\* Filter::generate_source: the shell command, then the input file, finally stdin
generate_source(f) ==
    IF f.cmd # None THEN Exec(f)
    ELSE IF f.input # None THEN [kind |-> "File", path |-> f.input.v]
    ELSE [kind |-> "Stdin"]

\* .expect("Only File and Exec source can be parallel") on a None
Panic == [kind |-> "panic"]

\* Filter::generate_par_source
par_source_falls_back(f) == generate_source(f)
generate_par_source(f) ==
    IF f.cmd # None THEN Exec(f)
    ELSE IF f.input # None THEN [kind |-> "File", path |-> f.input.v]
    ELSE Panic

\* Filter::run: if self.sync .. else if self.par_run .. else ..
FilterChooseDriver ==
    /\ filter.pc = "run"
    /\ filter' = [filter EXCEPT !.pc = "source",
                                !.driver = IF filter.sync THEN "sync"
                                           ELSE IF filter.par_run THEN "par_dyn_run"
                                           ELSE "dyn_run"]
    /\ UNCHANGED <<creator, jobVars, ctxVars, loopVars, now>>

\* the sync and dyn_run branches evaluate self.generate_source()
FilterGenerateSource ==
    /\ filter.pc = "source"
    /\ filter.driver \in {"sync", "dyn_run"}
    /\ filter' = [filter EXCEPT !.pc = "drive", !.source = generate_source(filter)]
    /\ UNCHANGED <<creator, jobVars, ctxVars, loopVars, now>>

\* the par_run branch evaluates self.generate_par_source(), which panics or
\* yields the argument of par_dyn_run
FilterGenerateParSource ==
    /\ filter.pc = "source"
    /\ filter.driver = "par_dyn_run"
    /\ LET src == generate_par_source(filter) IN
        filter' = IF src = Panic THEN [filter EXCEPT !.pc = "panicked"]
                                 ELSE [filter EXCEPT !.pc = "drive", !.source = src]
    /\ UNCHANGED <<creator, jobVars, ctxVars, loopVars, now>>

\* the driver returns; run returns Ok(()) or the driver's error
FilterDriverReturns(res) ==
    /\ filter.pc = "drive"
    /\ filter' = [filter EXCEPT !.pc = res]
    /\ UNCHANGED <<creator, jobVars, ctxVars, loopVars, now>>

\* ------------------------------------------------------------------- Init

\* SessionContext is constructed outside this file: either value of the
\* flag is taken as possible
is_running_initially == BOOLEAN

\* everything but the filter command, which is a process of its own
Constructed ==
    /\ BACKGROUND_JOBS = {}
    /\ callerPc = [c \in Callers |-> "idle"]
    /\ callerArg = [c \in Callers |-> calculate_hash(1)]
    /\ tasks = <<>>
    /\ dropped = [j \in JobIds |-> 0]
    /\ ncalls = 0
    /\ debounce \in BOOLEAN
    /\ provider_id \in ProviderIds
    /\ cwd = 1
    /\ is_running \in is_running_initially
    /\ source_scale = None
    /\ total_size_msgs = 0
    /\ chan = <<>>
    /\ sent = <<>>
    /\ closed = FALSE
    /\ loopPc = "select"
    /\ pending_on_typed = None
    /\ deadline = NEVER
    /\ calls = <<>>
    /\ timeout_at = 0
    /\ last_typed_at = NoTyped
    /\ last_result = "none"
    /\ now = 0
    /\ creator = [c \in Callers |-> NoSession]

Init == Constructed /\ filter = NotRun

NextJobs ==
    \/ \E c \in Callers, j \in JobIds : Call(c, j)
    \/ \E c \in Callers : Register(c)
    \/ \E c \in Callers : SpawnTask(c)
    \/ \E c \in Callers : DropFuture(c)
    \/ \E i \in 1..MaxCalls : TaskFutureReturns(i)
    \/ \E i \in 1..MaxCalls : TaskNotesFinished(i)
    \/ \E i \in 1..MaxCalls : TaskPanics(i)

\* the registry on its own: the session is never started
InitJobs == Init /\ ~debounce /\ provider_id = "grep" /\ is_running

NextSession ==
    \/ \E k \in EventKinds : Send(k)
    \/ CloseChannel
    \/ RecvTerminate
    \/ RecvCreate
    \/ RecvOnMove
    \/ RecvOnTypedDebounce
    \/ RecvOnTypedDirect
    \/ RecvNone
    \/ TimerFires
    \/ \E i \in 1..MaxEvents, res \in {"ok", "err"} : HandlerReturns(i, res)
    \/ \E i \in 1..MaxEvents, scale \in ScaleKinds : CreateInitOk(i, scale)
    \/ \E i \in 1..MaxEvents : CreateInitErr(i)
    \/ \E i \in 1..MaxEvents : CreateTimeoutGrep(i)
    \/ \E i \in 1..MaxEvents : CreateTimeoutOther(i)
    \/ \E i \in 1..MaxEvents : TaskFutureReturns(i)
    \/ \E i \in 1..MaxEvents : TaskNotesFinished(i)
    \/ \E i \in 1..MaxEvents : TaskPanics(i)
    \/ Tick

SpecSession == Init /\ [][NextSession]_vars

SpecJobs == InitJobs /\ [][NextJobs]_vars

\* the on_create handlers of several sessions against the one registry
NextCreate ==
    \/ \E c \in Callers, p \in ProviderIds, w \in Cwds : SessionCreate(c, p, w)
    \/ \E c \in Callers, scale \in ScaleKinds : SessionInitOk(c, scale)
    \/ \E c \in Callers : SessionInitErr(c)
    \/ \E c \in Callers : SessionTimeoutGrep(c)
    \/ \E c \in Callers : SessionTimeoutOther(c)
    \/ \E c \in Callers : SessionCreateReturns(c)
    \/ \E c \in Callers : Register(c)
    \/ \E c \in Callers : SpawnTask(c)
    \/ \E c \in Callers : DropFuture(c)
    \/ \E i \in 1..MaxCalls : TaskFutureReturns(i)
    \/ \E i \in 1..MaxCalls : TaskNotesFinished(i)
    \/ \E i \in 1..MaxCalls : TaskPanics(i)

SpecCreate == InitJobs /\ [][NextCreate]_vars

\* one invocation of the filter command, with every combination of options
InitFilter ==
    /\ Constructed /\ ~debounce /\ provider_id = "grep" /\ is_running
    /\ filter \in Invocations

NextFilter ==
    \/ FilterChooseDriver
    \/ FilterGenerateSource
    \/ FilterGenerateParSource
    \/ \E res \in {"ok", "err"} : FilterDriverReturns(res)

SpecFilter == InitFilter /\ [][NextFilter]_vars

\* one debounced session of a provider outside the grep family
InitDebounce == Init /\ debounce /\ provider_id = "files" /\ is_running

\* a step of the loop task: a branch of the select is taken
LoopStep ==
    \/ RecvTerminate
    \/ RecvCreate
    \/ RecvOnMove
    \/ RecvOnTypedDebounce
    \/ RecvNone

\* a step of the handler the loop is awaiting
HandlerStep ==
    \/ \E i \in 1..MaxEvents, res \in {"ok", "err"} : HandlerReturns(i, res)
    \/ \E i \in 1..MaxEvents, scale \in ScaleKinds : CreateInitOk(i, scale)
    \/ \E i \in 1..MaxEvents : CreateInitErr(i)
    \/ \E i \in 1..MaxEvents : CreateTimeoutOther(i)

NextDebounce ==
    \/ \E k \in EventKinds : Send(k)
    \/ CloseChannel
    \/ LoopStep
    \/ TimerFires
    \/ HandlerStep
    \/ Tick

\* The runtime polls the loop task whenever a branch of its select is ready,
\* an elapsed timer wakes the task, the handlers terminate, and time passes.
\* Nothing is assumed of the senders.
SpecDebounceFair ==
    /\ InitDebounce
    /\ [][NextDebounce]_vars
    /\ WF_vars(LoopStep)
    /\ WF_vars(TimerFires)
    /\ WF_vars(HandlerStep)
    /\ WF_vars(Tick)

\* --------------------------------------------------- properties: registry

Registered(j) == {c \in Callers : callerPc[c] = "registered" /\ callerArg[c] = j}

\* a task with id j is executing, or is being spawned by a caller that has
\* just registered j
Live(j) == ExecutingTasks(j) # {} \/ Registered(j) # {}

AtMostOneExecuting == \A j \in JobIds : Cardinality(ExecutingTasks(j)) <= 1

RegisterReturnsAbsent ==
    \A c \in Callers :
        callerPc[c] = "call" /\ callerPc'[c] # "call" =>
            /\ callerPc'[c] \in {"registered", "rejected"}
            /\ (callerPc'[c] = "registered") = (callerArg[c] \notin BACKGROUND_JOBS)

OnlyRegisteredSpawn ==
    /\ tasks' # tasks /\ Len(tasks') > Len(tasks) =>
            \E c \in Callers :
                /\ callerPc[c] = "registered"
                /\ tasks' = Append(tasks, [id |-> callerArg[c], st |-> "awaiting"])
    /\ \A c \in Callers :
            callerPc[c] = "rejected" /\ callerPc'[c] # "rejected" =>
                /\ tasks' = tasks
                /\ callerPc'[c] = "idle"

\* C1: for every job id at most one spawned task is executing at any
\* instant, under every interleaving of spawn_singleton_job calls; the
\* register step returns true iff the id was absent before it; a call that
\* got false spawns no task.
C1_SingletonJob ==
    /\ []AtMostOneExecuting
    /\ [][RegisterReturnsAbsent /\ OnlyRegisteredSpawn]_vars

\* a caller has been refused while a task with its id is executing, and a
\* task with another id is executing at the same time
C1_Witness ==
    \E c \in Callers, j \in JobIds :
        /\ callerPc[c] = "rejected"
        /\ ExecutingTasks(callerArg[c]) # {}
        /\ j # callerArg[c]
        /\ ExecutingTasks(j) # {}

\* C2: when the future of a task panicked, the id of the task has been
\* removed from BACKGROUND_JOBS (unless a later spawn holds it again), so no
\* id stays registered after its task has ended.
C2_PanicReleasesJob ==
    \A i \in 1..Len(tasks) :
        tasks[i].st = "panicked" /\ ~Live(tasks[i].id) =>
            tasks[i].id \notin BACKGROUND_JOBS

\* C3: BACKGROUND_JOBS contains an id iff a task with that id is executing
\* (or is being spawned by the caller that registered it).
C3_RegistryIffExecuting ==
    \A j \in JobIds : (j \in BACKGROUND_JOBS) <=> Live(j)

AtMostOneLive ==
    \A j \in JobIds :
        Cardinality(ExecutingTasks(j)) + Cardinality(Registered(j)) <= 1

AllFinished(j) ==
    /\ \E i \in 1..Len(tasks) : tasks[i].id = j
    /\ \A i \in 1..Len(tasks) : tasks[i].id = j => tasks[i].st = "finished"
    /\ Registered(j) = {}

SecondCallDropped ==
    \A c \in Callers :
        callerPc[c] = "call" /\ callerPc'[c] # "call" /\ Live(callerArg[c]) =>
            callerPc'[c] = "rejected"

RegistersAgainAfterFinish ==
    \A c \in Callers :
        callerPc[c] = "call" /\ callerPc'[c] # "call" /\ AllFinished(callerArg[c]) =>
            callerPc'[c] = "registered"

\* C4: of two concurrent spawn_singleton_job calls with the same id exactly
\* one spawns a task and the other is refused while the first is registered
\* or executing; once every task of the id has run note_job_is_finished, the
\* next call with the id registers again.
C4_OneOfTwoThenAgain ==
    /\ []AtMostOneLive
    /\ [][SecondCallDropped /\ RegistersAgainAfterFinish]_vars

\* a future of id j was dropped, a first task of j finished and a second
\* task of j is executing
C4_Witness ==
    \E j \in JobIds, i, k \in 1..Len(tasks) :
        /\ dropped[j] >= 1
        /\ i < k
        /\ tasks[i].id = j /\ tasks[i].st = "finished"
        /\ tasks[k].id = j /\ Executing(tasks[k])

\* ---------------------------------------------------- properties: session

HandlerOf(k) ==
    CASE k = "Create" -> "on_create"
      [] k = "OnMove" -> "on_move"
      [] k = "OnTyped" -> "on_typed"
      [] k = "Terminate" -> "handle_terminate"

\* the OnTyped sent[i] is followed by an OnTyped of the same burst
Superseded(i) ==
    /\ sent[i].kind = "OnTyped"
    /\ \E k \in (i + 1)..Len(sent) :
            /\ sent[k].kind = "OnTyped"
            /\ sent[k].burst
            /\ \A m \in (i + 1)..(k - 1) : sent[m].kind # "OnTyped"

OnTypedCalls == {c \in 1..Len(calls) : calls[c].kind = "on_typed"}

\* C5: in the debounced loop on_typed is invoked once for a burst of OnTyped
\* events sent less than DELAY apart, with the payload of the last of them:
\* never with the payload of an event that a later event of its burst
\* follows, and never twice with one payload.
C5_BurstCollapsed ==
    debounce =>
        /\ \A c \in OnTypedCalls : ~Superseded(calls[c].id)
        /\ \A c, d \in OnTypedCalls : calls[c].id = calls[d].id => c = d

\* C6: after a Terminate has been handled no on_create, on_move or on_typed
\* is invoked.
C6_TerminateIsTerminal ==
    \A i, k \in 1..Len(calls) :
        i < k /\ calls[i].kind = "handle_terminate" =>
            calls[k].kind \notin {"on_create", "on_move", "on_typed"}

\* C7: at most one handler of the session is executing at any instant, and
\* a handler is started only when no handler is executing.
C7_HandlersSerial ==
    /\ [](Cardinality(RunningCalls) <= 1)
    /\ [][Len(calls') > Len(calls) => RunningCalls = {}]_vars

\* the debounce timer has started on_typed while events wait in the channel
C7_Witness ==
    /\ debounce
    /\ chan # <<>>
    /\ \E i \in RunningCalls : calls[i].kind = "on_typed"

\* C8: without debounce the handler invocations are, in order, the handlers
\* of the events sent, one per event received, and every invocation but the
\* latest has returned.
C8_InOrderOnePerEvent ==
    ~debounce =>
        /\ Len(calls) = Len(sent) - Len(chan)
        /\ \A i \in 1..Len(calls) :
                /\ calls[i].id = sent[i].id
                /\ calls[i].kind = HandlerOf(sent[i].kind)
                /\ i < Len(calls) => calls[i].st = "returned"

\* three events of different kinds have been handled in the order sent
C8_Witness ==
    /\ ~debounce
    /\ Len(calls) = 3
    /\ chan = <<>>
    /\ calls[1].kind # calls[2].kind
    /\ calls[2].kind # calls[3].kind
    /\ calls[3].st = "returned"

ReturnsWithError(i) ==
    /\ i \in RunningCalls
    /\ calls'[i].st = "returned"
    /\ last_result' = "err"

\* C9: a handler that returns an error leaves the loop waiting in its select
\* with the channel, the pending slot, the timer and the running flag as
\* they were; the loop ends only when the channel is closed and empty.
C9_FailureKeepsSession ==
    /\ [](loopPc = "done" => closed /\ chan = <<>>)
    /\ [][\A i \in 1..Len(calls) : ReturnsWithError(i) =>
              /\ loopPc' = "select"
              /\ UNCHANGED <<chan, closed, pending_on_typed, deadline, is_running>>]_vars

\* a handler is running that was started after a handler returned an error
C9_Witness ==
    /\ last_result = "err"
    /\ RunningCalls # {}

CreateCompleted ==
    \E i \in 1..Len(calls) : calls[i].kind = "on_create" /\ calls[i].st = "returned"

Terminated == \E i \in 1..Len(calls) : calls[i].kind = "handle_terminate"

\* C10 as stated: the running flag is true exactly when a Create handler
\* has completed and no Terminate has been handled.
C10_RunningBetweenCreateAndTerminate ==
    is_running <=> (CreateCompleted /\ ~Terminated)

\* C10 amended: the flag is false once a Terminate has been handled, no step
\* sets it to true, and until a Terminate is handled it keeps the value the
\* context was constructed with.
C10_RunningUntilTerminate ==
    /\ [](Terminated => ~is_running)
    /\ [][/\ is_running' => is_running
          /\ ~Terminated' => is_running' = is_running]_vars

\* a Terminate was handled and a later on_create completed with the flag
\* still false
C10_Witness ==
    /\ ~is_running
    /\ \E i, k \in 1..Len(calls) :
            /\ i < k
            /\ calls[i].kind = "handle_terminate"
            /\ calls[k].kind = "on_create"
            /\ calls[k].st = "returned"

\* a Terminate was sent while the handler call sent[n].during was running
SentDuringHandler(n) == sent[n].kind = "Terminate" /\ sent[n].during > 0

\* C11: a Terminate sent while a handler is running makes the running flag
\* false without waiting for that handler: by the time the handler has
\* returned, the flag is false.
C11_TerminateFlipsWhileRunning ==
    \A n \in 1..Len(sent) :
        SentDuringHandler(n) /\ calls[sent[n].during].st = "returned" => ~is_running

\* ------------------------------------------- properties: several sessions

GrepProviders == {"grep", "live_grep"}

TimedOut(c) == creator[c].st # "none" /\ creator[c].outcome = "timeout"

\* the callers that are inside spawn_singleton_job
InSpawn == {c \in Callers : callerPc[c] # "idle"}

RECURSIVE SumDropped(_)
SumDropped(js) ==
    IF js = {} THEN 0
    ELSE LET j == CHOOSE x \in js : TRUE IN dropped[j] + SumDropped(js \ {j})

\* the number of spawn_singleton_job calls made so far
Requests == Cardinality(InSpawn) + Len(tasks) + SumDropped(JobIds)

\* C12: on_create calls spawn_singleton_job exactly when initialize timed
\* out and the provider is grep or live_grep, with the hash of the session's
\* cwd as job id; at most one job per id is executing, whatever number of
\* sessions timed out; a timeout of another provider requests nothing and
\* leaves the source scale unset.
C12_CacheJobOnGrepTimeout ==
    /\ \A c \in InSpawn :
            /\ creator[c].st = "spawning"
            /\ TimedOut(c)
            /\ creator[c].provider_id \in GrepProviders
            /\ callerArg[c] = calculate_hash(creator[c].cwd)
    /\ Requests = Cardinality({c \in Callers :
                        TimedOut(c) /\ creator[c].provider_id \in GrepProviders})
    /\ \A i \in 1..Len(tasks) :
            \E c \in Callers : TimedOut(c) /\ tasks[i].id = calculate_hash(creator[c].cwd)
    /\ \A j \in JobIds : Cardinality(ExecutingTasks(j)) <= 1
    /\ \A c \in Callers : TimedOut(c) => creator[c].source_scale = None

\* a grep and a live_grep session with the same cwd both timed out; the job
\* of one is executing and the future of the other was dropped
C12_Witness ==
    \E c1, c2 \in Callers :
        /\ creator[c1].st = "returned" /\ TimedOut(c1) /\ creator[c1].provider_id = "grep"
        /\ creator[c2].st = "returned" /\ TimedOut(c2) /\ creator[c2].provider_id = "live_grep"
        /\ creator[c1].cwd = creator[c2].cwd
        /\ ExecutingTasks(calculate_hash(creator[c1].cwd)) # {}
        /\ dropped[calculate_hash(creator[c1].cwd)] = 1

\* ------------------------------------------------- properties: the context

\* the on_create calls that return in this step
CreateReturning ==
    {i \in RunningCalls : calls[i].kind = "on_create" /\ calls'[i].st = "returned"}

\* C13 as stated: s:set_total_size is emitted once per session, never more.
C13_OncePerSession == total_size_msgs <= 1

\* C13 amended: s:set_total_size is emitted, and the source scale slot is
\* written, only by an on_create whose initialize succeeded within the cap:
\* that on_create stores the scale and emits the message once if the scale
\* has a total, so the message is emitted once per such Create event; an
\* on_create whose initialize fails or times out emits nothing and leaves
\* the slot unchanged.
C13_TotalSizePerSuccessfulCreate ==
    [][/\ (total_size_msgs' # total_size_msgs \/ source_scale' # source_scale)
            => CreateReturning # {} /\ last_result' = "ok"
       /\ (CreateReturning # {} /\ last_result' = "ok")
            => /\ source_scale' # None
               /\ total_size_msgs' = IF source_scale'.id = "Indefinite"
                                         THEN total_size_msgs
                                         ELSE total_size_msgs + 1
       /\ (CreateReturning # {} /\ last_result' \in {"err", "timeout"})
            => UNCHANGED <<total_size_msgs, source_scale>>]_vars

\* two on_create calls emitted the message and a third one failed or timed
\* out, leaving the scale in the slot
C13_Witness ==
    /\ total_size_msgs = 2
    /\ source_scale # None
    /\ last_result \in {"err", "timeout"}
    /\ \A i \in 1..Len(calls) : calls[i].kind = "on_create" /\ calls[i].st = "returned"

\* the event ids still queued in the channel
Queued == {chan[k].id : k \in 1..Len(chan)}

OnCreateCalls == {c \in 1..Len(calls) : calls[c].kind = "on_create"}

\* C14 as stated: on_create runs once per session, never a second time.
C14_OnCreateOnce == Cardinality(OnCreateCalls) <= 1

\* C14 amended: on_create runs exactly once for every Create event the loop
\* has received and for no other event, so it runs exactly once in a session
\* that is sent exactly one Create.
C14_OnCreatePerCreateEvent ==
    /\ \A c \in OnCreateCalls : sent[calls[c].id].kind = "Create"
    /\ \A n \in 1..Len(sent) :
            sent[n].kind = "Create" =>
                Cardinality({c \in OnCreateCalls : calls[c].id = n})
                    = IF n \in Queued THEN 0 ELSE 1

\* two Create events were handled, each by an on_create of its own, and the
\* loop has ended
C14_Witness ==
    /\ loopPc = "done"
    /\ \E c1, c2 \in OnCreateCalls : calls[c1].id # calls[c2].id
    /\ \E n \in 1..Len(sent) : sent[n].kind # "Create"

\* ------------------------------------------ properties: the debounce state

\* this step takes an OnTyped out of the channel
TakesOnTyped == chan # <<>> /\ Head(chan).kind = "OnTyped" /\ chan' = Tail(chan)

\* this step starts a handler call of kind h
Starts(h) == Len(calls') = Len(calls) + 1 /\ calls'[Len(calls')].kind = h

\* C15: in the debounced loop the pending slot and the timer deadline are
\* changed only by receiving an OnTyped and by the timer branch; receiving
\* an OnTyped puts the new message into the slot, whatever was there, and
\* sets the deadline DELAY after the current instant; starting or finishing
\* on_create, on_move or handle_terminate changes neither.
C15_OnlyOnTypedAndTimerTouchDebounce ==
    [][debounce =>
        /\ (pending_on_typed' # pending_on_typed \/ deadline' # deadline)
                => TakesOnTyped \/ Starts("on_typed")
        /\ TakesOnTyped => /\ pending_on_typed' = [kind |-> "Some", id |-> Head(chan).id]
                           /\ deadline' = now + DELAY
                           /\ calls' = calls
        /\ (Starts("on_create") \/ Starts("on_move") \/ Starts("handle_terminate")
                \/ CreateReturning # {})
                => UNCHANGED <<pending_on_typed, deadline>>]_vars

\* an OnTyped replaced an earlier one in the slot, and a Create, OnMove or
\* Terminate sent after it has been handled while it stayed in the slot
C15_Witness ==
    /\ debounce
    /\ pending_on_typed # None
    /\ \E j \in 1..Len(sent) :
            /\ j < pending_on_typed.id
            /\ sent[j].kind = "OnTyped"
            /\ j \notin Queued
    /\ \E c \in 1..Len(calls) :
            /\ calls[c].id > pending_on_typed.id
            /\ calls[c].st = "returned"

\* C16: in the debounced loop a pending slot that is occupied is eventually
\* emptied, unless a later OnTyped moves the deadline beyond the horizon of
\* the clock or the channel is closed first; the slot is emptied by the timer
\* branch only, which is taken only with the slot occupied and the deadline
\* reached, and which hands the message of the slot to on_typed, empties
\* the slot and sets the deadline back to never in the step that starts
\* the handler.
C16_PendingEventuallyHandled ==
    /\ (pending_on_typed # None /\ deadline <= MaxTime)
            ~> (pending_on_typed = None \/ deadline > MaxTime \/ closed)
    /\ [][/\ Starts("on_typed") =>
                /\ pending_on_typed # None
                /\ now >= deadline
                /\ calls'[Len(calls')] = [kind |-> "on_typed", id |-> pending_on_typed.id,
                                          st |-> "running"]
                /\ pending_on_typed' = None
                /\ deadline' = now + NEVER
          /\ (pending_on_typed # None /\ pending_on_typed' = None) => Starts("on_typed")]_vars

\* the timer fired for a pending OnTyped with the channel open and empty,
\* after a handler for an event sent later had run
C16_Witness ==
    /\ debounce
    /\ ~closed
    /\ chan = <<>>
    /\ pending_on_typed = None
    /\ \E c \in OnTypedCalls :
            /\ c = Len(calls)
            /\ \E d \in 1..(c - 1) : calls[d].id > calls[c].id

\* --------------------------------------------- properties: the filter command

\* the source has been chosen and handed to the driver
SourceChosen == filter.pc \in {"drive", "ok", "err"}

ParallelRun == filter.par_run /\ ~filter.sync

\* C17: the parallel driver is chosen exactly for --par-run without --sync
\* and gets an Exec or a File source, never stdin; with neither --cmd nor
\* --input that run panics before the driver is started; the run panics in
\* no other case; the other two drivers get the Exec source of --cmd if it is
\* given, else the File source of --input if it is given, else stdin.
C17_ParallelNeedsFileOrExec ==
    /\ filter.pc \notin {"none", "run"} => (filter.driver = "par_dyn_run" <=> ParallelRun)
    /\ (SourceChosen /\ ParallelRun) => filter.source.kind \in {"Exec", "File"}
    /\ (filter.pc \notin {"none", "run", "source"} /\ ParallelRun
            /\ filter.cmd = None /\ filter.input = None) => filter.pc = "panicked"
    /\ filter.pc = "panicked" => ParallelRun /\ filter.cmd = None /\ filter.input = None
    /\ SourceChosen =>
            \/ /\ filter.cmd # None
               /\ filter.source.kind = "Exec"
               /\ filter.source.cmd = filter.cmd.v
               /\ filter.source.cwd = filter.cmd_dir
            \/ /\ filter.cmd = None /\ filter.input # None
               /\ filter.source.kind = "File"
               /\ filter.source.path = filter.input.v
            \/ /\ filter.cmd = None /\ filter.input = None
               /\ filter.source.kind = "Stdin"

\* --par-run without --cmd and --input has panicked
C17_Witness ==
    /\ filter.pc = "panicked"
    /\ filter.cmd_dir # None

\* C18: in the debounced loop the pending slot is occupied exactly when the
\* timer is armed with a deadline at most DELAY ahead, and empty exactly
\* when the deadline is a never deadline; at the start the slot is empty
\* and the deadline is never.
C18_SlotIffTimerArmed ==
    debounce =>
        /\ pending_on_typed # None <=> deadline <= now + DELAY
        /\ pending_on_typed = None <=> deadline >= NEVER
        /\ sent = <<>> => pending_on_typed = None

\* the slot was filled, emptied by the timer, and is filled again: the timer
\* is armed a second time, with a message waiting at the top of the select
C18_Witness ==
    /\ debounce
    /\ loopPc = "select"
    /\ pending_on_typed # None
    /\ deadline > now
    /\ \E c \in OnTypedCalls : calls[c].st = "returned"

\* the OnTyped events the loop has taken out of the channel
ReceivedTyped == {n \in 1..Len(sent) : sent[n].kind = "OnTyped" /\ n \notin Queued}

\* the event received last among those of S: the channel is first in, first
\* out, and the ids follow the send order
Latest(S) == CHOOSE n \in S : \A m \in S : m <= n

\* C19: in the debounced loop every on_typed call carries the payload of an
\* OnTyped event that was received, no two calls carry the same payload, there
\* are never more calls than OnTyped events received, and the call started
\* by the timer carries the OnTyped received last.
C19_OnTypedCarriesLatestReceived ==
    /\ [](debounce =>
            /\ \A c \in OnTypedCalls : calls[c].id \in ReceivedTyped
            /\ \A c, d \in OnTypedCalls : calls[c].id = calls[d].id => c = d
            /\ Cardinality(OnTypedCalls) <= Cardinality(ReceivedTyped))
    /\ [][(debounce /\ Starts("on_typed")) =>
            /\ ReceivedTyped # {}
            /\ calls'[Len(calls')].id = Latest(ReceivedTyped)]_vars

\* on_typed was called for the second of three OnTyped events received; the
\* first was dropped and the third is in the slot
C19_Witness ==
    /\ debounce
    /\ Cardinality(ReceivedTyped) = 3
    /\ Cardinality(OnTypedCalls) = 1
    /\ \A c \in OnTypedCalls : calls[c].id = 2
    /\ pending_on_typed # None

\* C20: the debounced loop ends only by recv() yielding None, that is with
\* the channel closed and drained, and that step is possible whenever the
\* loop is at its select with the channel closed and drained, whatever the
\* slot and the timer are; the step invokes no handler and leaves the slot
\* as it is, and after it no handler is invoked any more.
C20_EndsOnClosedAndDrained ==
    /\ [][(debounce /\ loopPc # "done" /\ loopPc' = "done") =>
            /\ loopPc = "select"
            /\ closed
            /\ chan = <<>>
            /\ UNCHANGED <<calls, pending_on_typed, deadline, now>>]_vars
    /\ [][(debounce /\ loopPc = "done") =>
            /\ loopPc' = "done"
            /\ UNCHANGED <<calls, pending_on_typed>>]_vars
    /\ []((debounce /\ loopPc = "select" /\ closed /\ chan = <<>>) => ENABLED RecvNone)

\* the loop has ended with an OnTyped in the slot whose deadline was not
\* reached; on_typed was not invoked with it
C20_Witness ==
    /\ debounce
    /\ loopPc = "done"
    /\ pending_on_typed # None
    /\ now < deadline
    /\ \A c \in OnTypedCalls : calls[c].id # pending_on_typed.id
    /\ OnTypedCalls # {}

====
